---- MODULE Spec2Model ----
(***************************************************************************)
(* Model of folder_analyze.py: main, analyze_folder, analyze_zip and Item. *)
(*                                                                         *)
(* Strings are sequences of character codes, so that str.count, str.lower, *)
(* str.split, str.endswith, Path.suffix and the comparison of strings are   *)
(* computed character by character as Python computes them.  Paths follow  *)
(* pathlib's Windows flavour, the one the script counts '\' for            *)
(* (Item.__init__) and documents in its --path help text.                  *)
(*                                                                         *)
(* The disk is a table of nodes 1..n in enumeration order.  A node is a    *)
(* directory entry when its parent is the root or a directory, a record of *)
(* an archive when its parent is a readable .zip file (or a folder record  *)
(* inside one), and an object behind a symbolic link when its parent is a  *)
(* link.                                                                   *)
(***************************************************************************)
EXTENDS Integers, Sequences, FiniteSets, TLC

\* Largest number of nodes under the root when the report path is the default.
MaxNodes == 3
\* Largest number of nodes under the root when the report extension varies.
MaxNodesMain == 2

VARIABLES
    fs,         \* the disk under the root: node id -> [parent, kind, name, ok]
    rootKind,   \* what --path names: "dir", "file" or "missing"
    rootForm,   \* how --path is written: "abs" C:\r, "rel" ., "drive" C:\
    report,     \* the file name given as --report
    ex,         \* main: ex = report_path.suffix.lower()
    pc,         \* control point: main, walk, write, done, raised
    idx,        \* analyze_folder: position of the for loop in root.rglob('*')
    cur,        \* the node bound to the innermost loop variable (path / f_name)
    items,      \* analyze_folder: items
    stack,      \* active analyze_zip calls: [zip, zip_root, pos, items], innermost last
    handles,    \* open ZipFile / ZipExtFile objects, innermost last
    data,       \* main: data, the list analyze_folder returned
    printed,    \* messages main printed
    written,    \* extension of the report file a writer wrote, <<>> when none
    exc         \* uncaught exception that ended the run, or "none"

vars == <<fs, rootKind, rootForm, report, ex, pc, idx, cur, items, stack, handles,
          data, printed, written, exc>>

----------------------------------------------------------------------------
(* Characters and strings                                                  *)

BSL == <<92>>                       \* "\"
SLASH == <<47>>                     \* "/"
DOT == <<46>>                       \* "."
DotZip == <<46, 122, 105, 112>>     \* ".zip"

\* str.lower on one character: 'A'..'Z' -> 'a'..'z'
LowerChar(c) == IF c >= 65 /\ c <= 90 THEN c + 32 ELSE c

\* str.lower
Lower(s) == [i \in 1..Len(s) |-> LowerChar(s[i])]

\* str.count(ch) for a one-character ch
Count(s, ch) == Cardinality({i \in 1..Len(s) : s[i] = ch})

\* str.endswith(suf)
EndsWith(s, suf) ==
    /\ Len(s) >= Len(suf)
    /\ SubSeq(s, Len(s) - Len(suf) + 1, Len(s)) = suf

\* Python's s <= t on strings: lexicographic on code points
StrLeq(s, t) ==
    LET diff == {i \in 1..Len(s) : i > Len(t) \/ s[i] # t[i]}
        k == CHOOSE i \in diff : \A j \in diff : i <= j
    IN  IF diff = {} THEN TRUE
        ELSE IF k > Len(t) THEN FALSE
        ELSE s[k] < t[k]

\* position of the last occurrence of ch in s, 0 when there is none (str.rfind + 1)
LastIndex(s, ch) ==
    LET at == {i \in 1..Len(s) : s[i] = ch}
    IN  IF at = {} THEN 0 ELSE CHOOSE i \in at : \A j \in at : j <= i

\* s.split(ch)[-1]
LastField(s, ch) == SubSeq(s, LastIndex(s, ch) + 1, Len(s))

\* s.split(ch) without the empty fields, as pathlib parses the parts of a path
RECURSIVE SplitParts(_, _)
SplitParts(s, ch) ==
    IF s = <<>> THEN <<>>
    ELSE LET at == {i \in 1..Len(s) : s[i] = ch}
             k == IF at = {} THEN Len(s) + 1
                  ELSE CHOOSE i \in at : \A j \in at : i <= j
             head == SubSeq(s, 1, k - 1)
             rest == SplitParts(SubSeq(s, k + 1, Len(s)), ch)
         IN  IF head = <<>> THEN rest ELSE <<head>> \o rest

----------------------------------------------------------------------------
(* pathlib                                                                 *)

\* str(path): the anchor followed by the parts joined with '\'; '.' when empty
RECURSIVE JoinParts(_)
JoinParts(parts) ==
    IF parts = <<>> THEN <<>>
    ELSE IF Len(parts) = 1 THEN parts[1]
    ELSE parts[1] \o BSL \o JoinParts(Tail(parts))

Str(p) ==
    IF p.parts = <<>>
    THEN (IF p.anchor = <<>> THEN DOT ELSE p.anchor)
    ELSE p.anchor \o JoinParts(p.parts)

\* path.joinpath(s) / path / s for a relative s written with '/'
JoinPath(p, s) == [anchor |-> p.anchor, parts |-> p.parts \o SplitParts(s, 47)]

\* path.suffix: the last component from its last '.', unless that '.' leads or ends it
Suffix(p) ==
    IF p.parts = <<>> THEN <<>>
    ELSE LET nm == p.parts[Len(p.parts)]
             k == LastIndex(nm, 46)
         IN  IF k > 1 /\ k < Len(nm) THEN SubSeq(nm, k, Len(nm)) ELSE <<>>

\* path.suffix.lower() == '.zip'
IsZipSuffix(p) == Lower(Suffix(p)) = DotZip

----------------------------------------------------------------------------
(* The disk under the root                                                 *)

NameA == <<97>>                              \* "a"
NameATxt == <<97, 46, 116, 120, 116>>        \* "a.txt"
NameZTxt == <<90, 46, 116, 120, 116>>        \* "Z.txt"
NameAZip == <<97, 46, 122, 105, 112>>        \* "a.zip"
NameZZIP == <<90, 46, 90, 73, 80>>           \* "Z.ZIP"

DirNames == {NameA, NameAZip}
LinkNames == {NameA, NameAZip}
FileNames == {NameATxt, NameZTxt, NameAZip, NameZZIP}

RootForms == {"abs", "rel", "drive"}
RootKinds == {"dir", "file", "missing"}

\* Path(args.path): C:\r, . and C:\ 
RootPath(form) ==
    IF form = "abs" THEN [anchor |-> <<67, 58, 92>>, parts |-> <<<<114>>>>]
    ELSE IF form = "rel" THEN [anchor |-> <<>>, parts |-> <<>>]
    ELSE [anchor |-> <<67, 58, 92>>, parts |-> <<>>]

\* the name carries the .zip extension, in any case
IsZipName(nm) == IsZipSuffix([anchor |-> <<>>, parts |-> <<nm>>])

\* a regular file that zipfile.ZipFile can read
IsArchive(t, j) == t[j].kind = "file" /\ IsZipName(t[j].name) /\ t[j].ok

\* Where node j lives: 0 on the disk, z > 0 inside the archive node z,
\* -1 behind a symbolic link.
RECURSIVE Owner(_, _)
Owner(t, j) ==
    LET p == t[j].parent
    IN  IF p = 0 THEN 0
        ELSE IF t[p].kind = "link" THEN -1
        ELSE IF t[p].kind = "file" THEN p
        ELSE Owner(t, p)

\* the kinds and names a node may take; ok is FALSE for a .zip file whose
\* bytes are no archive
Shapes ==
    {[kind |-> "dir", name |-> nm, ok |-> TRUE] : nm \in DirNames}
    \cup {[kind |-> "link", name |-> nm, ok |-> TRUE] : nm \in LinkNames}
    \cup {[kind |-> "file", name |-> nm, ok |-> TRUE] : nm \in FileNames}
    \cup {[kind |-> "file", name |-> nm, ok |-> FALSE] :
             nm \in {x \in FileNames : IsZipName(x)}}

\* the nodes of t that can hold further nodes: directories, links to
\* directories and readable archives, none of them behind a link
Holders(t) ==
    {0} \cup {p \in 1..Len(t) :
                 /\ t[p].kind \in {"dir", "link"} \/ IsArchive(t, p)
                 /\ Owner(t, p) >= 0}

\* Owner of a node placed under p
OwnerUnder(t, p) ==
    IF p = 0 THEN 0
    ELSE IF t[p].kind = "link" THEN -1
    ELSE IF t[p].kind = "file" THEN p
    ELSE Owner(t, p)

\* a node of shape sh may be placed under p: links exist on the disk only,
\* behind a link lie plain files, and a directory of the disk holds one
\* entry per name
Allowed(t, p, sh) ==
    /\ sh.kind = "link" => OwnerUnder(t, p) = 0
    /\ OwnerUnder(t, p) = -1 => (sh.kind = "file" /\ sh.ok)
    /\ OwnerUnder(t, p) <= 0 =>
           \A k \in 1..Len(t) :
               t[k].parent = p => Lower(t[k].name) # Lower(sh.name)

\* the nodes that may follow the nodes of t in enumeration order
NodeChoices(t) ==
    {[parent |-> c[1], kind |-> c[2].kind, name |-> c[2].name, ok |-> c[2].ok] :
        c \in {d \in Holders(t) \X Shapes : Allowed(t, d[1], d[2])}}

\* the sequence of the elements of the set of numbers S, ascending
RECURSIVE Ascending(_)
Ascending(S) ==
    IF S = {} THEN <<>>
    ELSE LET m == CHOOSE x \in S : \A y \in S : x <= y
         IN  <<m>> \o Ascending(S \ {m})

\* root.rglob('*'): every entry of the disk below the root, links included,
\* never what lies behind a link
Rglob(t) == Ascending({j \in 1..Len(t) : Owner(t, j) = 0})

\* zipf.infolist() of the archive z
InfoList(t, z) == Ascending({j \in 1..Len(t) : Owner(t, j) = z})

\* ZipInfo.filename: the name inside the archive, '/' between folders and
\* at the end of a folder record
RECURSIVE RelName(_, _)
RelName(t, j) ==
    IF t[j].parent = 0 \/ t[t[j].parent].kind # "dir" THEN t[j].name
    ELSE RelName(t, t[j].parent) \o SLASH \o t[j].name

Filename(t, j) ==
    RelName(t, j) \o (IF t[j].kind = "dir" THEN SLASH ELSE <<>>)

\* the path rglob yields for the disk node j
DiskPath(t, form, j) == JoinPath(RootPath(form), RelName(t, j))

\* st_size / ZipInfo.file_size
FileSize(t, j) == IF t[j].kind = "dir" THEN 0 ELSE 10 * j

----------------------------------------------------------------------------
(* Item                                                                    *)

\* Item.__init__(root_path, path, size, time) on str(root) and str(path)
MakeItem(root_path, path, size) ==
    [path |-> path,
     level |-> Count(path, 92) - Count(root_path, 92) - 1,
     name |-> LastField(path, 92),
     size |-> size]

\* size after the two ifs of the loop body: the .zip test is the later one
SizeToken(isdir, iszip, n) ==
    IF iszip THEN "ZIP" ELSE IF isdir THEN "FOLDER" ELSE ToString(n)

----------------------------------------------------------------------------
(* main: arguments                                                         *)

ReportDefault == <<114, 101, 112, 111, 114, 116, 46, 106, 115, 111, 110>>  \* "report.json"

\* values of --report
ReportNames ==
    { ReportDefault,
      <<114, 46, 74, 83, 79, 78>>,        \* "r.JSON"
      <<114, 46, 99, 115, 118>>,          \* "r.csv"
      <<114, 46, 100, 111, 99, 120>>,     \* "r.docx"
      <<114, 46, 120, 108, 115, 120>>,    \* "r.xlsx"
      <<114, 46, 112, 100, 102>>,         \* "r.pdf"
      <<114, 46, 116, 120, 116>>,         \* "r.txt"
      <<114>> }                           \* "r"

\* the cases of the match statement that call a writer
Supported ==
    { <<46, 100, 111, 99, 120>>,          \* ".docx"
      <<46, 120, 108, 115, 120>>,         \* ".xlsx"
      <<46, 112, 100, 102>>,              \* ".pdf"
      <<46, 99, 115, 118>>,               \* ".csv"
      <<46, 106, 115, 111, 110>> }        \* ".json"

\* Path.is_dir() and Path.exists() of the root
IsDir(kind) == kind = "dir"
Exists(kind) == kind # "missing"

\* the test with 'and' in place of 'or'
RootInvalidAnd(kind) == ~IsDir(kind) /\ ~Exists(kind)

\* not folder_path.is_dir() or not folder_path.exists()
RootInvalid(kind) == ~IsDir(kind) \/ ~Exists(kind)

----------------------------------------------------------------------------
(* State                                                                   *)

TypeOK ==
    /\ rootKind \in RootKinds
    /\ rootForm \in RootForms
    /\ pc \in {"main", "walk", "write", "done", "raised"}
    /\ idx \in 0..(Len(fs) + 1)
    /\ cur \in 0..Len(fs)
    /\ printed \subseteq {"root_error", "format_error", "success"}
    /\ exc \in {"none", "OSError", "BadZipFile"}

\* fs is a disk of at most n nodes that extends t
RECURSIVE Grow(_, _)
Grow(t, n) ==
    IF n = 0 THEN fs = t
    ELSE fs = t \/ \E r \in NodeChoices(t) : Grow(Append(t, r), n - 1)

\* The runs explored: every disk of up to MaxNodes nodes with the default
\* report path; every report name with the disks of up to MaxNodesMain
\* nodes; every report name with a root that is a file or is missing.
Init ==
    /\ Grow(<<>>, MaxNodes)
    /\ rootForm \in RootForms
    /\ \/ /\ rootKind = "dir"
          /\ report = ReportDefault
       \/ /\ Len(fs) <= MaxNodesMain
          /\ rootKind = "dir"
          /\ report \in ReportNames \ {ReportDefault}
       \/ /\ fs = <<>>
          /\ rootKind \in RootKinds \ {"dir"}
          /\ report \in ReportNames
    /\ ex = <<>>
    /\ pc = "main"
    /\ idx = 0
    /\ cur = 0
    /\ items = <<>>
    /\ stack = <<>>
    /\ handles = <<>>
    /\ data = <<>>
    /\ printed = {}
    /\ written = <<>>
    /\ exc = "none"

----------------------------------------------------------------------------
(* analyze_folder and analyze_zip                                          *)

\* the loop without its is_symlink test
NeverSymlink(j) == FALSE

IsSymlink(j) == fs[j].kind = "link"

\* zipfile.ZipFile(...) succeeds on the node
CanOpen(j) == IsArchive(fs, j)

\* handles opened without with: an exception closes none
UnwindLeak(h) == h

\* what leaving the with blocks by an exception does to the open handles
Unwind(h) == <<>>

\* what leaving the with blocks of one analyze_zip call does: one ZipFile for
\* an archive of the disk, a ZipFile and a ZipExtFile for a nested one
CloseFrame(h, depth) ==
    SubSeq(h, 1, Len(h) - (IF depth = 1 THEN 1 ELSE 2))

\* the sort key without lower()
KeyNoLower(it) == it.path

\* items.sort(key=lambda x: x.path.lower()): stable, ascending
SortKey(it) == Lower(it.path)

RECURSIVE InsertSorted(_, _)
InsertSorted(sorted, it) ==
    IF sorted = <<>> THEN <<it>>
    ELSE LET last == sorted[Len(sorted)]
         IN  IF StrLeq(SortKey(last), SortKey(it)) THEN Append(sorted, it)
             ELSE Append(InsertSorted(SubSeq(sorted, 1, Len(sorted) - 1), it), last)

\* analyze_folder without its sort
Unsorted(its) == its

RECURSIVE SortItems(_)
SortItems(its) ==
    IF its = <<>> THEN <<>>
    ELSE InsertSorted(SortItems(SubSeq(its, 1, Len(its) - 1)), its[Len(its)])

RootStr == Str(RootPath(rootForm))

\* the loop of analyze_folder is at an entry and no archive is being walked
AtEntry ==
    /\ pc = "walk"
    /\ stack = <<>>
    /\ idx <= Len(Rglob(fs))

Entry == Rglob(fs)[idx]

\* the loop of the innermost analyze_zip is at a record
Top == stack[Len(stack)]

AtRecord ==
    /\ pc = "walk"
    /\ stack # <<>>
    /\ Top.pos <= Len(InfoList(fs, Top.zip))

Rec == InfoList(fs, Top.zip)[Top.pos]

RecPath == JoinPath(Top.zip_root, Filename(fs, Rec))

\* main up to the call of analyze_folder
Main ==
    /\ pc = "main"
    /\ ex' = Lower(Suffix([anchor |-> <<>>, parts |-> <<report>>]))
    /\ IF RootInvalid(rootKind)
       THEN /\ printed' = printed \cup {"root_error"}
            /\ pc' = "done"
            /\ idx' = idx
       ELSE /\ printed' = printed
            /\ pc' = "walk"
            /\ idx' = 1
    /\ UNCHANGED <<fs, rootKind, rootForm, report, cur, items, stack, handles,
                   data, written, exc>>

\* if path.is_symlink(): continue
FolderSkipSymlink ==
    /\ AtEntry
    /\ IsSymlink(Entry)
    /\ cur' = Entry
    /\ idx' = idx + 1
    /\ UNCHANGED <<fs, rootKind, rootForm, report, ex, pc, items, stack,
                   handles, data, printed, written, exc>>

\* an entry that is no .zip: items.append(Item(...))
FolderAppend ==
    /\ AtEntry
    /\ ~IsSymlink(Entry)
    /\ ~IsZipSuffix(DiskPath(fs, rootForm, Entry))
    /\ cur' = Entry
    /\ items' = Append(items,
           MakeItem(RootStr, Str(DiskPath(fs, rootForm, Entry)),
                    SizeToken(fs[Entry].kind = "dir", FALSE, FileSize(fs, Entry))))
    /\ idx' = idx + 1
    /\ UNCHANGED <<fs, rootKind, rootForm, report, ex, pc, stack, handles,
                   data, printed, written, exc>>

\* a .zip entry: with zipfile.ZipFile(path, 'r') as zipf, and the call of analyze_zip
FolderOpenZip ==
    /\ AtEntry
    /\ ~IsSymlink(Entry)
    /\ IsZipSuffix(DiskPath(fs, rootForm, Entry))
    /\ CanOpen(Entry)
    /\ cur' = Entry
    /\ handles' = Append(handles, [type |-> "ZipFile", node |-> Entry])
    /\ stack' = <<[zip |-> Entry, zip_root |-> DiskPath(fs, rootForm, Entry),
                   pos |-> 1, items |-> <<>>]>>
    /\ UNCHANGED <<fs, rootKind, rootForm, report, ex, pc, idx, items, data,
                   printed, written, exc>>

\* a .zip entry that zipfile.ZipFile cannot open: the exception leaves analyze_folder
FolderOpenZipFail ==
    /\ AtEntry
    /\ ~IsSymlink(Entry)
    /\ IsZipSuffix(DiskPath(fs, rootForm, Entry))
    /\ ~CanOpen(Entry)
    /\ cur' = Entry
    /\ exc' = (IF fs[Entry].kind = "dir" THEN "OSError" ELSE "BadZipFile")
    /\ handles' = Unwind(handles)
    /\ pc' = "raised"
    /\ UNCHANGED <<fs, rootKind, rootForm, report, ex, idx, items, stack,
                   data, printed, written>>

\* a record that is no .zip: items.append(Item(...)) in analyze_zip
ZipAppend ==
    /\ AtRecord
    /\ ~IsZipSuffix(RecPath)
    /\ cur' = Rec
    /\ stack' = [stack EXCEPT ![Len(stack)] =
           [@ EXCEPT !.pos = @ + 1,
                     !.items = Append(@,
                         MakeItem(RootStr, Str(RecPath),
                             SizeToken(EndsWith(Filename(fs, Rec), SLASH), FALSE,
                                       FileSize(fs, Rec))))]]
    /\ UNCHANGED <<fs, rootKind, rootForm, report, ex, pc, idx, items, handles,
                   data, printed, written, exc>>

\* a .zip record: zipf.open, read, ZipFile(BytesIO(data)), recursive call
ZipOpenNested ==
    /\ AtRecord
    /\ IsZipSuffix(RecPath)
    /\ CanOpen(Rec)
    /\ cur' = Rec
    /\ handles' = handles \o <<[type |-> "ZipExtFile", node |-> Rec],
                               [type |-> "ZipFile", node |-> Rec]>>
    /\ stack' = Append(stack, [zip |-> Rec, zip_root |-> RecPath,
                               pos |-> 1, items |-> <<>>])
    /\ UNCHANGED <<fs, rootKind, rootForm, report, ex, pc, idx, items, data,
                   printed, written, exc>>

\* a .zip record whose bytes are no archive: BadZipFile leaves every call
ZipOpenNestedFail ==
    /\ AtRecord
    /\ IsZipSuffix(RecPath)
    /\ ~CanOpen(Rec)
    /\ cur' = Rec
    /\ exc' = "BadZipFile"
    /\ handles' = Unwind(handles)
    /\ stack' = <<>>
    /\ pc' = "raised"
    /\ UNCHANGED <<fs, rootKind, rootForm, report, ex, idx, items, data,
                   printed, written>>

\* analyze_zip returns: the with blocks close, the caller extends its items
\* and appends the Item of the archive itself
ZipReturn ==
    /\ pc = "walk"
    /\ stack # <<>>
    /\ Top.pos > Len(InfoList(fs, Top.zip))
    /\ cur' = Top.zip
    /\ handles' = CloseFrame(handles, Len(stack))
    /\ LET own == MakeItem(RootStr, Str(Top.zip_root),
                           SizeToken(FALSE, TRUE, FileSize(fs, Top.zip)))
           got == Append(Top.items, own)
       IN  IF Len(stack) = 1
           THEN /\ items' = items \o got
                /\ idx' = idx + 1
                /\ stack' = <<>>
           ELSE /\ items' = items
                /\ idx' = idx
                /\ stack' = [SubSeq(stack, 1, Len(stack) - 1)
                                EXCEPT ![Len(stack) - 1] =
                                    [@ EXCEPT !.pos = @ + 1,
                                              !.items = @ \o got]]
    /\ UNCHANGED <<fs, rootKind, rootForm, report, ex, pc, data, printed,
                   written, exc>>

\* the loop of analyze_folder ends: items.sort(...); return items
FolderReturn ==
    /\ pc = "walk"
    /\ stack = <<>>
    /\ idx > Len(Rglob(fs))
    /\ data' = SortItems(items)
    /\ pc' = "write"
    /\ UNCHANGED <<fs, rootKind, rootForm, report, ex, idx, cur, items, stack,
                   handles, printed, written, exc>>

\* case _ without its return: the closing message follows the error message
ReportFallThrough ==
    /\ pc = "write"
    /\ IF ex \in Supported
       THEN /\ written' = ex
            /\ printed' = printed \cup {"success"}
       ELSE /\ written' = written
            /\ printed' = printed \cup {"format_error", "success"}
    /\ pc' = "done"
    /\ UNCHANGED <<fs, rootKind, rootForm, report, ex, idx, cur, items, stack,
                   handles, data, exc>>

\* match ex: a writer and the closing message, or the message of case _
Report ==
    /\ pc = "write"
    /\ IF ex \in Supported
       THEN /\ written' = ex
            /\ printed' = printed \cup {"success"}
       ELSE /\ written' = written
            /\ printed' = printed \cup {"format_error"}
    /\ pc' = "done"
    /\ UNCHANGED <<fs, rootKind, rootForm, report, ex, idx, cur, items, stack,
                   handles, data, exc>>

Next ==
    \/ Main
    \/ FolderSkipSymlink
    \/ FolderAppend
    \/ FolderOpenZip
    \/ FolderOpenZipFail
    \/ ZipAppend
    \/ ZipOpenNested
    \/ ZipOpenNestedFail
    \/ ZipReturn
    \/ FolderReturn
    \/ Report

Spec == Init /\ [][Next]_vars

----------------------------------------------------------------------------
(* The tree, read off the node table without the walkers                   *)

\* the root's parts followed by the names on the way down to node j
RECURSIVE NodePath(_)
NodePath(j) ==
    IF fs[j].parent = 0
    THEN [RootPath(rootForm) EXCEPT !.parts = Append(@, fs[j].name)]
    ELSE [NodePath(fs[j].parent) EXCEPT !.parts = Append(@, fs[j].name)]

NodeStr(j) == Str(NodePath(j))

\* the number of directories and archives strictly between the root and node j
RECURSIVE Depth(_)
Depth(j) == IF fs[j].parent = 0 THEN 0 ELSE 1 + Depth(fs[j].parent)

Nodes == 1..Len(fs)

\* node j is a symbolic link or lies behind one
BehindLink(j) == fs[j].kind = "link" \/ Owner(fs, j) = -1

\* node j is an entry of the disk that is no link, or a record of an archive
\* that is itself reached
RECURSIVE Reached(_)
Reached(j) ==
    LET z == Owner(fs, j)
    IN  IF z = 0 THEN fs[j].kind # "link"
        ELSE IF z = -1 THEN FALSE
        ELSE Reached(z)

\* a directory of the disk or a record whose stored name ends with '/'
IsFolder(j) == fs[j].kind = "dir"

RECURSIVE FrameItems(_)
FrameItems(st) ==
    IF st = <<>> THEN <<>> ELSE st[1].items \o FrameItems(Tail(st))

\* every Item built so far and still held by a running call
Live == items \o FrameItems(stack)

\* analyze_folder has returned its list to main
Returned == pc = "write" \/ (pc = "done" /\ "root_error" \notin printed)

Occurrences(seq, path) == Cardinality({i \in 1..Len(seq) : seq[i].path = path})

----------------------------------------------------------------------------
(* Claims                                                                  *)

\* C1: for any root tree analyze_folder returns, and its result holds exactly
\* one entry for every non-link entry of the disk and every record of every
\* archive reached; the walk ends by an exception only on an unreadable archive.
C1_OneEntryEach ==
    /\ Returned =>
          /\ Len(data) = Cardinality({j \in Nodes : Reached(j)})
          /\ \A j \in Nodes :
                 Reached(j) =>
                     Occurrences(data, NodeStr(j)) =
                         Cardinality({k \in Nodes :
                                         Reached(k) /\ NodeStr(k) = NodeStr(j)})
    /\ pc = "raised" => (fs[cur].kind = "file" /\ ~fs[cur].ok)

\* C2: the returned sequence is sorted by the lower-cased path: adjacent
\* entries are in order.
C2_Sorted ==
    Returned =>
        \A i \in 1..(Len(data) - 1) :
            StrLeq(Lower(data[i].path), Lower(data[i + 1].path))

C2_Witness ==
    /\ Returned
    /\ Len(data) >= 3
    /\ data # items
    /\ \E j \in Nodes : Owner(fs, j) > 0 /\ Reached(j)

\* the root directly contains the files Z.txt and a.txt
HasZAndA ==
    /\ \E j \in Nodes :
           fs[j].parent = 0 /\ fs[j].kind = "file" /\ fs[j].name = NameZTxt
    /\ \E j \in Nodes :
           fs[j].parent = 0 /\ fs[j].kind = "file" /\ fs[j].name = NameATxt

PosOf(nm) ==
    CHOOSE i \in 1..Len(data) :
        data[i].path = Str(JoinPath(RootPath(rootForm), nm))

\* C3 as stated: with Z.txt and a.txt directly in the root, the entry of
\* Z.txt comes before the entry of a.txt.
C3_ZBeforeA == (Returned /\ HasZAndA) => PosOf(NameZTxt) < PosOf(NameATxt)

\* C3 amended: with Z.txt and a.txt directly in the root, the entry of a.txt
\* comes before the entry of Z.txt.
C3_ABeforeZ == (Returned /\ HasZAndA) => PosOf(NameATxt) < PosOf(NameZTxt)

C3_Witness == Returned /\ HasZAndA /\ Len(data) >= 2

\* C4: whatever the form of the root path, the level of every entry is the
\* number of directories and archives between the root and the entry, and is
\* never negative.
C4_LevelIsDepth ==
    \A i \in 1..Len(Live \o data) :
        LET it == (Live \o data)[i]
        IN  /\ it.level >= 0
            /\ \E j \in Nodes : NodeStr(j) = it.path /\ Depth(j) = it.level

\* C5: no entry is ever produced for a symbolic link or for anything that is
\* reachable only through one.
C5_NoSymlinkEntry ==
    \A j \in Nodes :
        BehindLink(j) => Occurrences(Live \o data, NodeStr(j)) = 0

C5_Witness ==
    /\ Returned
    /\ Len(data) >= 1
    /\ \E j \in Nodes : fs[j].kind = "link"
    /\ \E j \in Nodes : Owner(fs, j) = -1

\* report names whose extension is none of .docx .xlsx .pdf .csv .json
UnsupportedReports == { <<114, 46, 116, 120, 116>>, <<114>> }

\* C6: with a valid root and an unsupported report extension no report is
\* ever written and the success message is never printed, and the run ends
\* with an error reported: the format message, or the exception of the walk.
C6_UnsupportedFormat ==
    (rootKind = "dir" /\ report \in UnsupportedReports) =>
        /\ written = <<>>
        /\ "success" \notin printed
        /\ pc = "done" => "format_error" \in printed
        /\ pc = "raised" => exc # "none"

C6_Witness ==
    /\ pc = "done"
    /\ rootKind = "dir"
    /\ report = <<114, 46, 116, 120, 116>>
    /\ "format_error" \in printed
    /\ Len(data) >= 1

\* C7: with a root that is missing or no directory, main reports the error
\* and returns: no traversal starts, no writer runs, whatever the extension.
C7_InvalidRoot ==
    rootKind # "dir" =>
        /\ pc \in {"main", "done"}
        /\ idx = 0 /\ items = <<>> /\ data = <<>>
        /\ written = <<>>
        /\ "success" \notin printed
        /\ pc = "done" => "root_error" \in printed

C7_Witness ==
    /\ pc = "done"
    /\ rootKind = "file"
    /\ ex \in Supported
    /\ "root_error" \in printed

\* C8: a directory, or a record whose stored name ends with '/', gets FOLDER
\* and is never opened as an archive, whatever its name; ZIP goes only to a
\* non-directory with the .zip extension, the byte size to everything else.
C8_FolderFirst ==
    /\ pc = "raised" => ~IsFolder(cur)
    /\ \A i \in 1..Len(Live \o data) :
           LET it == (Live \o data)[i]
               same == {j \in Nodes : NodeStr(j) = it.path}
           IN  /\ (\A j \in same : IsFolder(j)) => it.size = "FOLDER"
               /\ (\A j \in same : ~IsFolder(j) /\ IsZipName(fs[j].name))
                      => it.size = "ZIP"
               /\ (\A j \in same : ~IsFolder(j) /\ ~IsZipName(fs[j].name))
                      => it.size \notin {"FOLDER", "ZIP"}

\* path begins with pre
StartsWith(s, pre) == Len(s) >= Len(pre) /\ SubSeq(s, 1, Len(pre)) = pre

\* the path of the directory or archive that holds the entry, <<>> when the
\* path has no separator
ContainerOf(path) ==
    IF LastIndex(path, 92) = 0 THEN <<>>
    ELSE SubSeq(path, 1, LastIndex(path, 92) - 1)

\* C9: in the returned sequence every entry whose container has an entry
\* comes after it, with only descendants of that container in between.
C9_PreOrder ==
    Returned =>
        \A i \in 1..Len(data) :
            LET c == ContainerOf(data[i].path)
            IN  (\E k \in 1..Len(data) : data[k].path = c) =>
                    \E k \in 1..(i - 1) :
                        /\ data[k].path = c
                        /\ \A m \in (k + 1)..(i - 1) :
                               StartsWith(data[m].path, c \o BSL)

\* the handles the active analyze_zip calls hold inside their with blocks
RECURSIVE FrameHandles(_, _)
FrameHandles(st, depth) ==
    IF st = <<>> THEN <<>>
    ELSE (IF depth = 1 THEN <<[type |-> "ZipFile", node |-> st[1].zip]>>
          ELSE <<[type |-> "ZipExtFile", node |-> st[1].zip],
                 [type |-> "ZipFile", node |-> st[1].zip]>>)
         \o FrameHandles(Tail(st), depth + 1)

\* C10: the open handles are at every moment exactly those of the archives
\* on the recursion path; none is open once analyze_folder has returned or
\* the walk has ended by an exception; an archive whose own entry has been
\* appended holds no open handle.
C10_HandlesScoped ==
    /\ handles = FrameHandles(stack, 1)
    /\ pc \in {"write", "done", "raised"} => handles = <<>>
    /\ \A z \in Nodes :
           IsArchive(fs, z) =>
               Cardinality({i \in 1..Len(Live) :
                               Live[i].path = NodeStr(z) /\ Live[i].size = "ZIP"})
               + Cardinality({k \in 1..Len(handles) :
                               /\ handles[k].type = "ZipFile"
                               /\ NodeStr(handles[k].node) = NodeStr(z)})
               <= Cardinality({j \in Nodes :
                                  IsArchive(fs, j) /\ NodeStr(j) = NodeStr(z)})

\* a corrupt archive two archives deep has ended the walk
C10_Witness ==
    /\ pc = "raised"
    /\ exc = "BadZipFile"
    /\ cur > 0
    /\ Owner(fs, cur) > 0
    /\ Owner(fs, Owner(fs, cur)) > 0
    /\ handles = <<>>

====
